---- MODULE Spec2Model ----
(***************************************************************************)
(* A model of todoist-helper (src/src/main.rs): the paginated fetch of     *)
(* completed Todoist items, their grouping by project name, the report     *)
(* with its shared seen-set, and the extraction and resolution of GitHub   *)
(* links found in the items' text.                                         *)
(*                                                                         *)
(* A Rust String is modelled as a sequence of characters, a character as a *)
(* one-character TLA+ string.  "ar3" stands for the single character       *)
(* U+0663 (ARABIC-INDIC DIGIT THREE): a decimal digit for the regex        *)
(* crate's Unicode-aware \d and \w, and not a digit for u64::from_str.     *)
(***************************************************************************)
EXTENDS Integers, Sequences, FiniteSets, TLC

(***************************************************************************)
(* Characters and strings                                                  *)
(***************************************************************************)

AsciiDigits == {"0", "1", "2", "3", "4", "5", "6", "7", "8", "9"}

Lower ==
    {"a", "b", "c", "d", "e", "f", "g", "h", "i", "j", "k", "l", "m",
     "n", "o", "p", "q", "r", "s", "t", "u", "v", "w", "x", "y", "z"}

Upper ==
    {"A", "B", "C", "D", "E", "F", "G", "H", "I", "J", "K", "L", "M",
     "N", "O", "P", "Q", "R", "S", "T", "U", "V", "W", "X", "Y", "Z"}

\* the regex class \d (Unicode decimal digits)
RegexDigit == AsciiDigits \cup {"ar3"}

\* the regex class [\w-]
RegexWordOrHyphen == Lower \cup Upper \cup RegexDigit \cup {"_", "-"}

\* The characters the model uses, in code point order (the order of String's Ord).
CodePointOrder ==
    <<" ", "#", "-", ".", "/",
      "0", "1", "2", "3", "4", "5", "6", "7", "8", "9", ":",
      "A", "B", "C", "D", "E", "F", "G", "H", "I", "J", "K", "L", "M",
      "N", "O", "P", "Q", "R", "S", "T", "U", "V", "W", "X", "Y", "Z",
      "_",
      "a", "b", "c", "d", "e", "f", "g", "h", "i", "j", "k", "l", "m",
      "n", "o", "p", "q", "r", "s", "t", "u", "v", "w", "x", "y", "z",
      "ar3">>

CodePoint(c) == CHOOSE i \in 1..Len(CodePointOrder) : CodePointOrder[i] = c

\* the least element of a non-empty set of integers
Least(S) == CHOOSE j \in S : \A k \in S : j <= k

\* str::starts_with
StartsWith(s, prefix) ==
    /\ Len(prefix) <= Len(s)
    /\ SubSeq(s, 1, Len(prefix)) = prefix

\* s has the literal lit at position i
HasAt(s, i, lit) ==
    /\ i + Len(lit) - 1 <= Len(s)
    /\ SubSeq(s, i, i + Len(lit) - 1) = lit

\* String's Ord: lexicographic by code point, a proper prefix first
StrLess(a, b) ==
    LET common == IF Len(a) < Len(b) THEN Len(a) ELSE Len(b)
        differ == {i \in 1..common : a[i] # b[i]}
    IN IF differ = {} THEN Len(a) < Len(b)
       ELSE CodePoint(a[Least(differ)]) < CodePoint(b[Least(differ)])

\* the position after the longest run of characters of class that starts at i
RunEnd(s, i, class) ==
    LET stops == {j \in i..Len(s) : s[j] \notin class}
    IN IF stops = {} THEN Len(s) + 1 ELSE Least(stops)

(***************************************************************************)
(* Item::extract_github_links                                              *)
(***************************************************************************)

Http == <<"h", "t", "t", "p">>
HostPart == <<":", "/", "/", "g", "i", "t", "h", "u", "b", ".", "c", "o", "m", "/">>
IssuesWord == <<"i", "s", "s", "u", "e", "s">>
PullWord == <<"p", "u", "l", "l">>

\* u64::MAX, 18446744073709551615, as its decimal digits
U64MaxDigits ==
    <<"1", "8", "4", "4", "6", "7", "4", "4", "0", "7",
      "3", "7", "0", "9", "5", "5", "1", "6", "1", "5">>

RECURSIVE StripZeros(_)
StripZeros(ds) ==
    IF Len(ds) > 1 /\ Head(ds) = "0" THEN StripZeros(Tail(ds)) ELSE ds

NoneValue == [some |-> FALSE]

\* str::parse::<u64> of a non-empty string: None on a character that is no
\* ASCII digit and on a value above u64::MAX.  The value is kept as its
\* decimal digits without leading zeros, which is also how {} prints it.
ParseU64(ds) ==
    LET v == StripZeros(ds) IN
    IF \E i \in 1..Len(ds) : ds[i] \notin AsciiDigits THEN NoneValue
    ELSE IF Len(v) > Len(U64MaxDigits) THEN NoneValue
    ELSE IF Len(v) = Len(U64MaxDigits) /\ StrLess(U64MaxDigits, v) THEN NoneValue
    ELSE [some |-> TRUE, value |-> v]

NoMatch == [matched |-> FALSE]

\* The regex anchored at position i of s:
\*   https?://github\.com/(?P<owner>[\w-]+)/(?P<repo>[\w-]+)/(issues|pull)/(?P<number>\d+)
\* Every repetition is followed by a character outside its class (or by the
\* end of the pattern), so the greedy choice is the only one that can match.
MatchAt(s, i) ==
    IF ~HasAt(s, i, Http) THEN NoMatch
    ELSE
    LET a == IF HasAt(s, i + 4, <<"s">>) THEN i + 5 ELSE i + 4 IN
    IF ~HasAt(s, a, HostPart) THEN NoMatch
    ELSE
    LET o1 == a + Len(HostPart)
        o2 == RunEnd(s, o1, RegexWordOrHyphen) IN
    IF o2 = o1 \/ ~HasAt(s, o2, <<"/">>) THEN NoMatch
    ELSE
    LET r1 == o2 + 1
        r2 == RunEnd(s, r1, RegexWordOrHyphen) IN
    IF r2 = r1 \/ ~HasAt(s, r2, <<"/">>) THEN NoMatch
    ELSE
    LET k1 == r2 + 1
        k2 == IF HasAt(s, k1, IssuesWord) THEN k1 + Len(IssuesWord)
              ELSE IF HasAt(s, k1, PullWord) THEN k1 + Len(PullWord)
              ELSE 0 IN
    IF k2 = 0 \/ ~HasAt(s, k2, <<"/">>) THEN NoMatch
    ELSE
    LET n1 == k2 + 1
        n2 == RunEnd(s, n1, RegexDigit) IN
    IF n2 = n1 THEN NoMatch
    ELSE [matched |-> TRUE,
          end |-> n2,
          owner |-> SubSeq(s, o1, o2 - 1),
          repo |-> SubSeq(s, r1, r2 - 1),
          group3 |-> SubSeq(s, k1, k2 - 1),
          number |-> SubSeq(s, n1, n2 - 1)]

\* the closure of filter_map: a capture to a GitHubLink, or nothing
LinkOfCaptures(caps) ==
    LET number == ParseU64(caps.number) IN
    IF ~number.some THEN <<>>
    ELSE IF caps.group3 = IssuesWord
        THEN <<[owner |-> caps.owner, repo |-> caps.repo,
                kind |-> "Issue", number |-> number.value]>>
    ELSE IF caps.group3 = PullWord
        THEN <<[owner |-> caps.owner, repo |-> caps.repo,
                kind |-> "PullRequest", number |-> number.value]>>
    ELSE <<>>

\* captures_iter from position i: the leftmost match, then on from its end
RECURSIVE CapturesFrom(_, _)
CapturesFrom(s, i) ==
    LET starts == {j \in i..Len(s) : s[j] = Head(Http) /\ MatchAt(s, j).matched}
    IN IF starts = {} THEN <<>>
       ELSE LET m == MatchAt(s, Least(starts))
            IN <<m>> \o CapturesFrom(s, m.end)

RECURSIVE FilterMapLinks(_)
FilterMapLinks(caps) ==
    IF caps = <<>> THEN <<>>
    ELSE LinkOfCaptures(Head(caps)) \o FilterMapLinks(Tail(caps))

\* extract_github_links, were a repeated link reported once
extract_github_links_dedup(content) ==
    LET all == FilterMapLinks(CapturesFrom(content, 1))
        firsts == {i \in 1..Len(all) : \A j \in 1..(i - 1) : all[j] # all[i]}
        RECURSIVE Keep(_)
        Keep(i) == IF i > Len(all) THEN <<>>
                   ELSE (IF i \in firsts THEN <<all[i]>> ELSE <<>>) \o Keep(i + 1)
    IN Keep(1)

\* captures_iter(&self.content).filter_map(..).collect()
extract_github_links(content) == FilterMapLinks(CapturesFrom(content, 1))

(***************************************************************************)
(* Item::fetch_github_titles                                               *)
(***************************************************************************)

\* What the GitHub API answers to one lookup: an error (not found, rate
\* limit, auth), or the issue or pull request.  models::issues::Issue has a
\* title and an html_url; in models::pulls::PullRequest both are Options.
IssueResponses == {"err", "ok"}
PullResponses == {"err", "ok", "ok_no_title", "ok_no_url", "ok_no_title_no_url"}

ResponsesFor(link) ==
    IF link.kind = "Issue" THEN IssueResponses ELSE PullResponses

\* format!("{}/{}#{}", link.owner, link.repo, link.number)
Label(link) == link.owner \o <<"/">> \o link.repo \o <<"#">> \o link.number

\* the html_url and the title the remote holds for a link
RemoteUrl(link) ==
    <<"h", "t", "t", "p", "s">> \o HostPart \o link.owner \o <<"/">> \o link.repo
        \o <<"/">> \o (IF link.kind = "Issue" THEN IssuesWord ELSE PullWord)
        \o <<"/">> \o link.number

RemoteTitle(link) == <<"T", " ">> \o link.number

GitHubWorkItem(link) ==
    [label |-> Label(link), url |-> RemoteUrl(link), title |-> RemoteTitle(link)]

\* ResolveOne, were a failed lookup returned with ? instead of skipped
ResolveOneAbortOnError(link, response) ==
    IF link.kind = "Issue" THEN
        IF response = "err" THEN [stop |-> TRUE, push |-> <<>>]
        ELSE [stop |-> FALSE, push |-> <<GitHubWorkItem(link)>>]
    ELSE
        IF response = "err" THEN [stop |-> TRUE, push |-> <<>>]
        ELSE IF response \in {"ok_no_title", "ok_no_title_no_url"}
            THEN [stop |-> TRUE, push |-> <<>>]
        ELSE IF response = "ok_no_url" THEN [stop |-> FALSE, push |-> <<>>]
        ELSE [stop |-> FALSE, push |-> <<GitHubWorkItem(link)>>]

\* One turn of the loop over the links: "continue" (with or without a push)
\* or the early return of the ? operator.
\*   step.stop : the function returns Err here
\*   step.push : the work items pushed to rv
ResolveOne(link, response) ==
    IF link.kind = "Issue" THEN
        IF response = "err" THEN [stop |-> FALSE, push |-> <<>>]
        ELSE [stop |-> FALSE, push |-> <<GitHubWorkItem(link)>>]
    ELSE
        IF response = "err" THEN [stop |-> FALSE, push |-> <<>>]
        ELSE IF response \in {"ok_no_title", "ok_no_title_no_url"}
            THEN [stop |-> TRUE, push |-> <<>>]
        ELSE IF response = "ok_no_url" THEN [stop |-> FALSE, push |-> <<>>]
        ELSE [stop |-> FALSE, push |-> <<GitHubWorkItem(link)>>]

\* The loop from link i on; rv is the vector so far.  The result records the
\* lookups that were made (the link and the answer it got).
RECURSIVE ResolveFrom(_, _, _, _, _)
ResolveFrom(links, responses, i, rv, lookups) ==
    IF i > Len(links) THEN [ok |-> TRUE, rv |-> rv, lookups |-> lookups]
    ELSE LET step == ResolveOne(links[i], responses[i])
             made == Append(lookups, [link |-> links[i], response |-> responses[i]])
         IN IF step.stop THEN [ok |-> FALSE, rv |-> <<>>, lookups |-> made]
            ELSE ResolveFrom(links, responses, i + 1, rv \o step.push, made)

\* fetch_github_titles of an item with this content, the remote answering the
\* i-th lookup with responses[i]
fetch_github_titles(content, responses) ==
    ResolveFrom(extract_github_links(content), responses, 1, <<>>, <<>>)

\* the answers the remote may give to the lookups of a content string
ResponseChoices(content) ==
    LET links == extract_github_links(content) IN
    {r \in [1..Len(links) -> PullResponses] :
        \A i \in 1..Len(links) : r[i] \in ResponsesFor(links[i])}

(***************************************************************************)
(* The inputs: what the Todoist backend holds                               *)
(***************************************************************************)

\* the number of completion records the backend holds, at most
MaxItems == 3

\* the page size of fetch_completed_tasks; 200 in the source, scaled down
limit == 2

PrimaryPrefix ==
    <<"O", "x", "i", "d", "e", ":", " ", "R", "e", "c", "o", "n", "f", "i", "g",
      "u", "r", "a", "t", "o", "r">>

OxidePrefix == <<"O", "x", "i", "d", "e">>

ProjectIds == {"p1", "p2", "p3", "p4", "p5"}

\* project id -> Project.name
ProjectTable ==
    [p \in ProjectIds |->
        CASE p = "p1" -> PrimaryPrefix
          [] p = "p2" -> PrimaryPrefix \o <<" ", "2">>
          [] p = "p3" -> OxidePrefix \o <<":", " ", "S", "u", "p", "p", "o", "r", "t">>
          [] p = "p4" -> OxidePrefix
          [] p = "p5" -> <<"P", "e", "r", "s", "o", "n", "a", "l">>]

\* The `projects` object of one response: the table, or the table without
\* the entry of p3 (items of p3 on that page then have no project).
PageProjects ==
    {ProjectTable, [p \in ProjectIds \ {"p3"} |-> ProjectTable[p]]}

\* The pieces a content string is composed of: plain text and links.
TextSpace == [text |-> <<" ">>]
TextWord == [text |-> <<"x">>]
\* a GitHub URL that is neither an issue nor a pull request
TextCommitUrl ==
    [text |-> <<"h", "t", "t", "p", "s">> \o HostPart
                \o <<"a", "c", "m", "e", "/", "w", "i", "d", "g", "e", "t", "/",
                     "c", "o", "m", "m", "i", "t", "/", "1">>]

Acme == <<"a", "c", "m", "e">>
Widget == <<"w", "i", "d", "g", "e", "t">>

\* link pieces: as written in the text, and (`ref`) the reference they denote,
\* <<>> when the number is no u64
LinkIssue42 ==
    [scheme |-> <<"h", "t", "t", "p", "s">>, owner |-> Acme, repo |-> Widget,
     word |-> IssuesWord, digits |-> <<"4", "2">>,
     ref |-> <<[owner |-> Acme, repo |-> Widget, kind |-> "Issue",
                number |-> <<"4", "2">>]>>]
LinkPull007 ==
    [scheme |-> Http, owner |-> <<"a", "-", "b">>, repo |-> <<"w", "_", "2">>,
     word |-> PullWord, digits |-> <<"0", "0", "7">>,
     ref |-> <<[owner |-> <<"a", "-", "b">>, repo |-> <<"w", "_", "2">>,
                kind |-> "PullRequest", number |-> <<"7">>]>>]
\* u64::MAX, written with a leading zero
LinkPullMax ==
    [scheme |-> Http, owner |-> <<"a", "-", "b">>, repo |-> <<"w", "_", "2">>,
     word |-> PullWord, digits |-> <<"0">> \o U64MaxDigits,
     ref |-> <<[owner |-> <<"a", "-", "b">>, repo |-> <<"w", "_", "2">>,
                kind |-> "PullRequest", number |-> U64MaxDigits]>>]
\* u64::MAX + 1
LinkIssueOverflow ==
    [scheme |-> <<"h", "t", "t", "p", "s">>, owner |-> Acme, repo |-> Widget,
     word |-> IssuesWord,
     digits |-> <<"1", "8", "4", "4", "6", "7", "4", "4", "0", "7",
                  "3", "7", "0", "9", "5", "5", "1", "6", "1", "6">>,
     ref |-> <<>>]
\* a number the regex accepts and u64::from_str does not
LinkPullArabic ==
    [scheme |-> <<"h", "t", "t", "p", "s">>, owner |-> Acme, repo |-> Widget,
     word |-> PullWord, digits |-> <<"1", "ar3">>,
     ref |-> <<>>]

\* the pieces the texts of SpecExtract are composed of
TextPieces == {TextWord, TextCommitUrl}
LinkPieces == {LinkIssue42, LinkPullMax, LinkIssueOverflow, LinkPullArabic}

IsLinkPiece(piece) == "digits" \in DOMAIN piece

RenderPiece(piece) ==
    IF IsLinkPiece(piece)
    THEN piece.scheme \o HostPart \o piece.owner \o <<"/">> \o piece.repo
            \o <<"/">> \o piece.word \o <<"/">> \o piece.digits
    ELSE piece.text

\* the content string composed of the pieces of a recipe
RECURSIVE Render(_)
Render(recipe) ==
    IF recipe = <<>> THEN <<>> ELSE RenderPiece(Head(recipe)) \o Render(Tail(recipe))

TaskIds == {"t1", "t2", "t3", "t4"}

\* the text of a task: every completion record of a task carries it
TaskRecipe(t) ==
    IF t = "t1" THEN <<LinkIssue42, TextSpace, LinkPull007>> ELSE <<TextWord>>

\* the longest text of SpecExtract, in pieces
MaxPieces == 3

\* the number of records the backend of SpecPaging holds, at most
MaxBacklog == 5

Item(t, p) == [content |-> Render(TaskRecipe(t)), task_id |-> t, project_id |-> p]

SeqsUpTo(S, n) == UNION {[1..k -> S] : k \in 0..n}

(***************************************************************************)
(* BTreeMap<String, Vec<Item>>: a function on its keys, iterated in         *)
(* ascending key order                                                      *)
(***************************************************************************)

EmptyMap == <<>>

MinKey(keys) == CHOOSE k \in keys : \A j \in keys \ {k} : StrLess(k, j)

\* the keys in descending order
RECURSIVE SortedDescending(_)
SortedDescending(keys) ==
    IF keys = {} THEN <<>>
    ELSE LET k == MinKey(keys) IN Append(SortedDescending(keys \ {k}), k)

\* the keys in the order BTreeMap::iter yields them
RECURSIVE SortedKeys(_)
SortedKeys(keys) ==
    IF keys = {} THEN <<>>
    ELSE LET k == MinKey(keys) IN <<k>> \o SortedKeys(keys \ {k})

\* rv.entry(name).or_insert_with(Vec::new).push(item)
PushEntry(map, name, item) ==
    IF name \in DOMAIN map
    THEN [map EXCEPT ![name] = Append(@, item)]
    ELSE map @@ (name :> <<item>>)

(***************************************************************************)
(* State                                                                   *)
(***************************************************************************)

VARIABLES
    server_items,            \* the completion records the backend holds, in its order
    recipe,                  \* how the text under examination was composed (SpecExtract)
    pc,                      \* where doit is: fetch, select, primary, other, done, failed
    error,                   \* the error doit returned: none, fetch, no_primary, missing_title
    offset,                  \* fetch_completed_tasks: offset
    rv,                      \* fetch_completed_tasks: rv
    requests,                \* the requests sent to Todoist and what came back
    all_items,               \* doit: all_items
    reconfigurator_project,  \* doit: the key found
    reconfigurator_items,    \* doit: its items
    other_project_items,     \* doit: the items the second loop iterates over
    pos,                     \* the position of the running loop in its items
    printed,                 \* doit: printed
    out,                     \* the lines written to standard output
    calls                    \* the calls of fetch_github_titles and their lookups

vars ==
    <<server_items, recipe, pc, error, offset, rv, requests, all_items,
      reconfigurator_project, reconfigurator_items, other_project_items,
      pos, printed, out, calls>>

InitWith(items, r) ==
    /\ server_items = items
    /\ recipe = r
    /\ pc = "fetch"
    /\ error = "none"
    /\ offset = 0
    /\ rv = EmptyMap
    /\ requests = <<>>
    /\ all_items = EmptyMap
    /\ reconfigurator_project = <<>>
    /\ reconfigurator_items = <<>>
    /\ other_project_items = <<>>
    /\ pos = 0
    /\ printed = {}
    /\ out = <<>>
    /\ calls = <<>>

(***************************************************************************)
(* fetch_completed_tasks                                                   *)
(***************************************************************************)

Min(a, b) == IF a < b THEN a ELSE b

\* the items the backend returns for limit and offset
PageItems(off) == SubSeq(server_items, off + 1, Min(off + limit, Len(server_items)))

\* GroupPage, were the loop left at the first item without project
RECURSIVE GroupPageStopAtMissing(_, _, _)
GroupPageStopAtMissing(map, items, projects) ==
    IF items = <<>> THEN map
    ELSE LET item == Head(items) IN
         IF item.project_id \notin DOMAIN projects THEN map
         ELSE GroupPageStopAtMissing(
                  PushEntry(map, projects[item.project_id], item), Tail(items), projects)

\* the loop over the items of a response
RECURSIVE GroupPage(_, _, _)
GroupPage(map, items, projects) ==
    IF items = <<>> THEN map
    ELSE LET item == Head(items) IN
         IF item.project_id \notin DOMAIN projects
         THEN GroupPage(map, Tail(items), projects)
         ELSE GroupPage(
                  PushEntry(map, projects[item.project_id], item), Tail(items), projects)

\* IsLastPage, were the comparison <=
IsLastPageOrFull(nitems) == nitems <= limit

\* if nitems < limit { break; }
IsLastPage(nitems) == nitems < limit

\* FetchPageError, were the pages grouped so far reported
FetchPageErrorKeepsPartial ==
    /\ pc = "fetch"
    /\ requests' = Append(requests, [offset |-> offset, ok |-> FALSE, projects |-> EmptyMap])
    /\ pc' = "select"
    /\ all_items' = rv
    /\ UNCHANGED <<server_items, recipe, error, offset, rv, reconfigurator_project,
                   reconfigurator_items, other_project_items, pos, printed, out, calls>>

\* send() or json() fails: the ? operator returns the error, rv is dropped
FetchPageError ==
    /\ pc = "fetch"
    /\ requests' = Append(requests, [offset |-> offset, ok |-> FALSE, projects |-> EmptyMap])
    /\ rv' = EmptyMap
    /\ pc' = "failed"
    /\ error' = "fetch"
    /\ UNCHANGED <<server_items, recipe, offset, all_items, reconfigurator_project,
                   reconfigurator_items, other_project_items, pos, printed, out, calls>>

\* one turn of the loop with a response that parses
FetchPage ==
    /\ pc = "fetch"
    /\ \E projects \in PageProjects :
         LET items == PageItems(offset)
             nitems == Len(items)
             grouped == GroupPage(rv, items, projects)
         IN /\ requests' =
                  Append(requests, [offset |-> offset, ok |-> TRUE, projects |-> projects])
            /\ rv' = grouped
            /\ IF IsLastPage(nitems)
               THEN /\ pc' = "select"
                    /\ all_items' = grouped
                    /\ offset' = offset
               ELSE /\ pc' = "fetch"
                    /\ all_items' = all_items
                    /\ offset' = offset + limit
    /\ UNCHANGED <<server_items, recipe, error, reconfigurator_project,
                   reconfigurator_items, other_project_items, pos, printed, out, calls>>

(***************************************************************************)
(* doit, after the fetch                                                   *)
(***************************************************************************)

\* all_items.iter().find(|(k, _)| k.starts_with("Oxide: Reconfigurator")):
\* the matching keys in iteration order; find takes the first
PrimaryCandidates(map) ==
    SelectSeq(SortedKeys(DOMAIN map), LAMBDA k : StartsWith(k, PrimaryPrefix))

\* IsOtherProject without the prefix test
IsOtherProjectAnyPrefix(k, primary) == k # primary

\* the predicate of filter_map
IsOtherProject(k, primary) == StartsWith(k, OxidePrefix) /\ k # primary

RECURSIVE ItemsOfKeys(_, _)
ItemsOfKeys(map, keys) ==
    IF keys = <<>> THEN <<>> ELSE map[Head(keys)] \o ItemsOfKeys(map, Tail(keys))

\* IterationOrder, were the keys visited from the last to the first
IterationOrderReversed(map) == SortedDescending(DOMAIN map)

\* the order in which the groups of all_items are visited
IterationOrder(map) == SortedKeys(DOMAIN map)

\* all_items.iter().filter_map(..).flatten()
OtherProjectItems(map, primary) ==
    ItemsOfKeys(map, SelectSeq(IterationOrder(map), LAMBDA k : IsOtherProject(k, primary)))

HeaderLine == [kind |-> "header"]
SeparatorLine == [kind |-> "separator"]
ContentLine(item) == [kind |-> "content", item |-> item]
SubLine(work) == [kind |-> "sub", work |-> work]

RECURSIVE SubLines(_)
SubLines(works) ==
    IF works = <<>> THEN <<>> ELSE <<SubLine(Head(works))>> \o SubLines(Tail(works))

\* ok_or_else(..)? on the result of find: no key matches
SelectFails ==
    /\ pc = "select"
    /\ PrimaryCandidates(all_items) = <<>>
    /\ pc' = "failed"
    /\ error' = "no_primary"
    /\ UNCHANGED <<server_items, recipe, offset, rv, requests, all_items,
                   reconfigurator_project, reconfigurator_items, other_project_items,
                   pos, printed, out, calls>>

\* the partition, the empty seen-set and the first heading
SelectProjects ==
    /\ pc = "select"
    /\ PrimaryCandidates(all_items) # <<>>
    /\ LET primary == Head(PrimaryCandidates(all_items))
       IN /\ reconfigurator_project' = primary
          /\ reconfigurator_items' = all_items[primary]
          /\ other_project_items' = OtherProjectItems(all_items, primary)
    /\ printed' = {}
    /\ out' = Append(out, HeaderLine)
    /\ pos' = 1
    /\ pc' = "primary"
    /\ UNCHANGED <<server_items, recipe, error, offset, rv, requests, all_items, calls>>

\* InsertIsNew, were the set not consulted
InsertAlwaysNew(seen, item) == TRUE

\* printed.insert(&item.task_id): true when the id was not in the set
InsertIsNew(seen, item) == item.task_id \notin seen

\* the body of either loop for one item
ReportItem(item) ==
    IF ~InsertIsNew(printed, item)
    THEN /\ pos' = pos + 1
         /\ UNCHANGED <<pc, error, printed, out, calls>>
    ELSE \E responses \in ResponseChoices(item.content) :
           LET res == fetch_github_titles(item.content, responses)
           IN /\ printed' = printed \cup {item.task_id}
              /\ calls' = Append(calls,
                     [line |-> Len(out) + 1,
                      content |-> item.content,
                      links |-> extract_github_links(item.content),
                      lookups |-> res.lookups,
                      ok |-> res.ok,
                      rv |-> res.rv])
              /\ IF res.ok
                 THEN /\ out' = Append(out, ContentLine(item)) \o SubLines(res.rv)
                      /\ pos' = pos + 1
                      /\ UNCHANGED <<pc, error>>
                 ELSE /\ out' = Append(out, ContentLine(item))
                      /\ pc' = "failed"
                      /\ error' = "missing_title"
                      /\ pos' = pos

PrintReconfiguratorItem ==
    /\ pc = "primary"
    /\ pos <= Len(reconfigurator_items)
    /\ ReportItem(reconfigurator_items[pos])
    /\ UNCHANGED <<server_items, recipe, offset, rv, requests, all_items,
                   reconfigurator_project, reconfigurator_items, other_project_items>>

\* the first loop is over: the second heading
StartOtherWork ==
    /\ pc = "primary"
    /\ pos > Len(reconfigurator_items)
    /\ out' = Append(out, SeparatorLine)
    /\ pos' = 1
    /\ pc' = "other"
    /\ UNCHANGED <<server_items, recipe, error, offset, rv, requests, all_items,
                   reconfigurator_project, reconfigurator_items, other_project_items,
                   printed, calls>>

PrintOtherItem ==
    /\ pc = "other"
    /\ pos <= Len(other_project_items)
    /\ ReportItem(other_project_items[pos])
    /\ UNCHANGED <<server_items, recipe, offset, rv, requests, all_items,
                   reconfigurator_project, reconfigurator_items, other_project_items>>

\* Ok(())
Finish ==
    /\ pc = "other"
    /\ pos > Len(other_project_items)
    /\ pc' = "done"
    /\ UNCHANGED <<server_items, recipe, error, offset, rv, requests, all_items,
                   reconfigurator_project, reconfigurator_items, other_project_items,
                   pos, printed, out, calls>>

Next ==
    \/ FetchPage
    \/ FetchPageError
    \/ SelectFails
    \/ SelectProjects
    \/ PrintReconfiguratorItem
    \/ StartOtherWork
    \/ PrintOtherItem
    \/ Finish

Items(tasks, projects) == {Item(t, p) : t \in tasks, p \in projects}

\* Backends of at most MaxItems records: a task with links and a plain one,
\* in the primary project, another Oxide project and a project outside Oxide.
Init ==
    \E items \in SeqsUpTo(Items({"t1", "t2"}, {"p1", "p3", "p5"}), MaxItems) :
        InitWith(items, <<>>)

Spec == Init /\ [][Next]_vars

\* Backends for the order of the report: three plain tasks in the primary
\* project and in two other Oxide projects, one sorting before the primary.
InitOrder ==
    \E items \in SeqsUpTo(Items({"t2", "t3", "t4"}, {"p1", "p3", "p4"}), MaxItems) :
        InitWith(items, <<>>)

SpecOrder == InitOrder /\ [][Next]_vars

\* Backends for the choice of the primary project: two projects whose names
\* begin with "Oxide: Reconfigurator", and one outside Oxide.
InitPrimary ==
    \E items \in SeqsUpTo(Items({"t2", "t3"}, {"p1", "p2", "p5"}), MaxItems) :
        InitWith(items, <<>>)

SpecPrimary == InitPrimary /\ [][Next]_vars

\* Backends for the pagination: up to MaxBacklog records of two kinds.
InitPaging ==
    \E items \in SeqsUpTo({Item("t1", "p1"), Item("t2", "p3")}, MaxBacklog) :
        InitWith(items, <<>>)

SpecPaging == InitPaging /\ [][Next]_vars

\* Backends for the extraction: one record whose text is composed of at most
\* MaxPieces pieces, and a plain record of another project.
InitExtract ==
    \E r \in SeqsUpTo(TextPieces \cup LinkPieces, MaxPieces), p \in {"p1", "p5"} :
        InitWith(<<[content |-> Render(r), task_id |-> "t1", project_id |-> p],
                   Item("t2", "p3")>>, r)

SpecExtract == InitExtract /\ [][Next]_vars

(***************************************************************************)
(* What the properties are stated in                                       *)
(***************************************************************************)

Range(f) == {f[i] : i \in DOMAIN f}

IsPrefixOf(a, b) == Len(a) <= Len(b) /\ SubSeq(b, 1, Len(a)) = a

AllRequestsOk == \A i \in 1..Len(requests) : requests[i].ok

\* fetch_completed_tasks has returned Ok
FetchReturnedOk == pc # "fetch" /\ AllRequestsOk

\* The records received so far, in arrival order, each with the `projects`
\* object of the response it came in.
RECURSIVE ServedFrom(_)
ServedFrom(i) ==
    IF i > Len(requests) THEN <<>>
    ELSE (IF requests[i].ok
          THEN LET items == PageItems(requests[i].offset) IN
               [k \in 1..Len(items) |->
                   [item |-> items[k], projects |-> requests[i].projects, page |-> i]]
          ELSE <<>>) \o ServedFrom(i + 1)

Served == ServedFrom(1)

HasProject(s) == s.item.project_id \in DOMAIN s.projects
NameOf(s) == s.projects[s.item.project_id]

ServedNames == {NameOf(Served[k]) : k \in {j \in 1..Len(Served) : HasProject(Served[j])}}

RECURSIVE ItemsOf(_)
ItemsOf(ss) == IF ss = <<>> THEN <<>> ELSE <<Head(ss).item>> \o ItemsOf(Tail(ss))

\* the received records of the project called name, in arrival order
ArrivedIn(name) ==
    ItemsOf(SelectSeq(Served, LAMBDA s : HasProject(s) /\ NameOf(s) = name))

\* the first position at which a record of the project called name arrived
FirstSeen(name) ==
    CHOOSE k \in 1..Len(Served) :
        /\ HasProject(Served[k]) /\ NameOf(Served[k]) = name
        /\ \A j \in 1..(k - 1) : ~(HasProject(Served[j]) /\ NameOf(Served[j]) = name)

\* the names of a set in ascending order, and in order of first arrival
RECURSIVE ByName(_)
ByName(names) ==
    IF names = {} THEN <<>>
    ELSE LET n == CHOOSE m \in names : \A o \in names : ~StrLess(o, m)
         IN <<n>> \o ByName(names \ {n})

RECURSIVE ByFirstSeen(_)
ByFirstSeen(names) ==
    IF names = {} THEN <<>>
    ELSE LET n == CHOOSE m \in names : \A o \in names : FirstSeen(m) <= FirstSeen(o)
         IN <<n>> \o ByFirstSeen(names \ {n})

RECURSIVE ArrivedInAll(_)
ArrivedInAll(names) ==
    IF names = <<>> THEN <<>> ELSE ArrivedIn(Head(names)) \o ArrivedInAll(Tail(names))

\* the projects of the secondary stream: Oxide, and not the primary project
SecondaryNames ==
    {n \in ServedNames : StartsWith(n, OxidePrefix) /\ n # reconfigurator_project}

\* a sequence of items without the later records of a task already in it
RECURSIVE FirstOfEachTask(_, _)
FirstOfEachTask(items, seen) ==
    IF items = <<>> THEN <<>>
    ELSE IF Head(items).task_id \in seen THEN FirstOfEachTask(Tail(items), seen)
    ELSE <<Head(items)>> \o FirstOfEachTask(Tail(items), seen \cup {Head(items).task_id})

\* the report so far
ReportStarted == out # <<>>
HasSeparator == \E i \in 1..Len(out) : out[i].kind = "separator"
SeparatorAt ==
    IF HasSeparator THEN CHOOSE i \in 1..Len(out) : out[i].kind = "separator"
    ELSE Len(out) + 1

ContentLines == {i \in 1..Len(out) : out[i].kind = "content"}

RECURSIVE ContentItems(_, _)
ContentItems(from, to) ==
    IF from > to THEN <<>>
    ELSE (IF out[from].kind = "content" THEN <<out[from].item>> ELSE <<>>)
            \o ContentItems(from + 1, to)

PrimaryPrinted == ContentItems(1, SeparatorAt - 1)
SecondaryPrinted == ContentItems(SeparatorAt + 1, Len(out))

\* the sub-lines that follow line i directly
RECURSIVE SubLinesAfter(_)
SubLinesAfter(i) ==
    IF i + 1 <= Len(out) /\ out[i + 1].kind = "sub"
    THEN <<out[i + 1].work>> \o SubLinesAfter(i + 1)
    ELSE <<>>

\* the lookups of a call were answered by an error or by a full record
OnlyErrorsAndFullAnswers(call) ==
    \A i \in 1..Len(call.lookups) : call.lookups[i].response \in {"err", "ok"}

\* the work items of the lookups answered "ok", in order
RECURSIVE ResolvedOf(_)
ResolvedOf(lookups) ==
    IF lookups = <<>> THEN <<>>
    ELSE (IF Head(lookups).response = "ok"
          THEN <<GitHubWorkItem(Head(lookups).link)>> ELSE <<>>)
            \o ResolvedOf(Tail(lookups))

\* the references the link pieces of a recipe denote, in order
RECURSIVE ReferencesOf(_)
ReferencesOf(r) ==
    IF r = <<>> THEN <<>>
    ELSE (IF IsLinkPiece(Head(r)) THEN Head(r).ref ELSE <<>>) \o ReferencesOf(Tail(r))

Count(seq, x) == Cardinality({i \in 1..Len(seq) : seq[i] = x})

LastRequest == requests[Len(requests)]

PrimaryStream == ArrivedIn(reconfigurator_project)

\* The content lines are the first records of each task of the primary stream
\* followed by the secondary projects in the given order, as far as the
\* report got, the primary ones before the separator.
ReportFollows(secondaryOrder) ==
    LET expected ==
            FirstOfEachTask(PrimaryStream \o ArrivedInAll(secondaryOrder), {})
    IN /\ out[1] = HeaderLine
       /\ \A i \in 1..Len(out) :
             out[i].kind = "sub" => out[i - 1].kind \in {"content", "sub"}
       /\ IsPrefixOf(PrimaryPrinted, FirstOfEachTask(PrimaryStream, {}))
       /\ HasSeparator => PrimaryPrinted = FirstOfEachTask(PrimaryStream, {})
       /\ IsPrefixOf(PrimaryPrinted \o SecondaryPrinted, expected)
       /\ pc = "done" => PrimaryPrinted \o SecondaryPrinted = expected

(***************************************************************************)
(* Properties                                                              *)
(***************************************************************************)

\* C1: in one run at most one content line is printed per task identifier,
\* over both sections together; of the records of a task in the primary
\* items followed by the other items, the first is the one printed.
C1_TaskPrintedAtMostOnce ==
    /\ \A i \in ContentLines : \A j \in ContentLines :
          i # j => out[i].item.task_id # out[j].item.task_id
    /\ pc = "done" =>
          PrimaryPrinted \o SecondaryPrinted =
              FirstOfEachTask(reconfigurator_items \o other_project_items, {})

\* C1 witness: a finished report in which a task has a record in the primary
\* project and one in another project, and one content line.
C1_Witness ==
    /\ pc = "done"
    /\ \E a \in Range(reconfigurator_items) : \E b \in Range(other_project_items) :
          /\ a.task_id = b.task_id
          /\ Cardinality({i \in ContentLines : out[i].item.task_id = a.task_id}) = 1
          /\ SecondaryPrinted # <<>>

\* C2: the pages are requested at offsets 0, limit, 2*limit, ...; every page
\* but the last has exactly limit items and is followed by another request;
\* the fetch returns after the first page of fewer than limit items, so a
\* backend of N items gets N div limit + 1 requests.
C2_PagesUntilShortPage ==
    /\ \A i \in 1..Len(requests) : requests[i].offset = (i - 1) * limit
    /\ \A i \in 1..(Len(requests) - 1) :
          requests[i].ok /\ Len(PageItems(requests[i].offset)) = limit
    /\ (requests # <<>> /\ LastRequest.ok /\ Len(PageItems(LastRequest.offset)) = limit)
          => pc = "fetch"
    /\ FetchReturnedOk =>
          /\ Len(PageItems(LastRequest.offset)) < limit
          /\ Len(requests) = (Len(server_items) \div limit) + 1

\* C2 witness: a fetch that returned after two full pages and a short one.
C2_Witness ==
    /\ FetchReturnedOk
    /\ Len(requests) = 3
    /\ Len(PageItems(requests[1].offset)) = limit
    /\ Len(PageItems(requests[3].offset)) < limit

\* C3: when the number of project names that begin with
\* "Oxide: Reconfigurator" is not one, the run ends in an error and prints
\* no section.
C3_AmbiguousPrimaryIsFatal ==
    (FetchReturnedOk /\ Cardinality({n \in ServedNames : StartsWith(n, PrimaryPrefix)}) # 1)
        => (pc \in {"select", "failed"} /\ out = <<>>)

\* C4: a pull request that comes back without a title or without a URL is
\* left out: the call returns Ok after looking up every reference, and the
\* run does not end in an error.
C4_MissingTitleOrUrlIsSkipped ==
    \A k \in 1..Len(calls) :
        (\E i \in 1..Len(calls[k].lookups) :
            calls[k].lookups[i].response \in {"ok_no_title", "ok_no_url", "ok_no_title_no_url"})
        => (calls[k].ok /\ Len(calls[k].lookups) = Len(calls[k].links) /\ pc # "failed")

\* C5: when every lookup of an item either fails or returns a title and a
\* URL, fetch_github_titles looks up every reference, returns Ok with the
\* references whose lookup succeeded, in order, and they are the sub-lines
\* under the item's content line; no such call ends the run.
C5_FailedLookupsAreIsolated ==
    /\ \A k \in 1..Len(calls) :
          LET c == calls[k] IN
          OnlyErrorsAndFullAnswers(c) =>
              /\ c.ok
              /\ Len(c.lookups) = Len(c.links)
              /\ \A i \in 1..Len(c.links) : c.lookups[i].link = c.links[i]
              /\ c.rv = ResolvedOf(c.lookups)
              /\ out[c.line].kind = "content"
              /\ out[c.line].item.content = c.content
              /\ SubLinesAfter(c.line) = c.rv
    /\ (calls # <<>> /\ \A k \in 1..Len(calls) : OnlyErrorsAndFullAnswers(calls[k]))
          => (pc # "failed" /\ error = "none")

\* C5 witness: two references, the first lookup failed and the second
\* succeeded: one sub-line, for the second, and a later item printed.
C5_Witness ==
    \E k \in 1..Len(calls) :
        LET c == calls[k] IN
        /\ Len(c.lookups) = 2
        /\ c.lookups[1].response = "err"
        /\ c.lookups[2].response = "ok"
        /\ SubLinesAfter(c.line) = <<GitHubWorkItem(c.links[2])>>
        /\ \E j \in ContentLines : j > c.line

\* C6: a failed page is the last request; the fetch returns the error and no
\* items, nothing is printed, no lookup is made, and the run is over.
C6_FetchErrorIsFatal ==
    \A i \in 1..Len(requests) :
        ~requests[i].ok =>
            /\ i = Len(requests)
            /\ pc = "failed"
            /\ error = "fetch"
            /\ rv = EmptyMap
            /\ all_items = EmptyMap
            /\ out = <<>>
            /\ calls = <<>>
            /\ ~ENABLED Next

\* C6 witness: the second page fails after a first page whose items were grouped.
C6_Witness ==
    /\ Len(requests) >= 2
    /\ ~LastRequest.ok
    /\ \E k \in 1..Len(Served) : HasProject(Served[k])

\* C7: the groups are exactly the received records whose project_id is in
\* the projects of their own page, under that project's name, in arrival
\* order; a record without project is in no group, causes no error and does
\* not end the pagination: every record of the backend is received.
C7_MissingProjectDropsOneItem ==
    /\ AllRequestsOk =>
          /\ DOMAIN rv = ServedNames
          /\ \A n \in ServedNames : rv[n] = ArrivedIn(n)
          /\ error # "fetch"
    /\ FetchReturnedOk =>
          /\ all_items = rv
          /\ Len(Served) = Len(server_items)
          /\ Len(requests) = (Len(server_items) \div limit) + 1

\* C7 witness: a record without project on one page, a grouped record on a later one.
C7_Witness ==
    /\ FetchReturnedOk
    /\ \E k \in 1..Len(Served) : \E j \in 1..Len(Served) :
          /\ ~HasProject(Served[k])
          /\ HasProject(Served[j])
          /\ Served[j].page > Served[k].page
          /\ Count(rv[NameOf(Served[j])], Served[j].item) >= 1

\* C8 as stated: primary lines before the separator, secondary lines after
\* it, the secondary projects in the order in which their first record arrived.
C8_FirstSeenOrder ==
    ReportStarted => ReportFollows(ByFirstSeen(SecondaryNames))

\* C8 amended: primary lines before the separator, secondary lines after it,
\* the secondary projects in ascending order of their names, the records of
\* one project in arrival order.
C8_NameOrder ==
    ReportStarted => ReportFollows(ByName(SecondaryNames))

\* C8 witness: a finished report with lines of two secondary projects whose
\* name order is not their order of arrival.
C8_Witness ==
    /\ pc = "done"
    /\ PrimaryPrinted # <<>>
    /\ Len(SecondaryPrinted) >= 2
    /\ SecondaryPrinted[1].project_id # SecondaryPrinted[2].project_id
    /\ ByName(SecondaryNames) # ByFirstSeen(SecondaryNames)

\* C9: the items of the second loop are, record for record, the grouped
\* records of the projects whose name begins with "Oxide" and is not the
\* primary one; every printed line and every resolver call is for a record
\* of an Oxide project.
C9_SecondaryIsOxideNotPrimary ==
    ReportStarted =>
        /\ \A x \in Range(other_project_items) \cup Range(ItemsOf(Served)) :
              Count(other_project_items, x) =
                  Count(ArrivedInAll(ByName(SecondaryNames)), x)
        /\ \A i \in ContentLines :
              \E k \in 1..Len(Served) :
                  /\ Served[k].item = out[i].item
                  /\ HasProject(Served[k])
                  /\ StartsWith(NameOf(Served[k]), OxidePrefix)
                  /\ i > SeparatorAt => NameOf(Served[k]) \in SecondaryNames
        /\ \A k \in 1..Len(calls) :
              /\ calls[k].line \in ContentLines
              /\ out[calls[k].line].item.content = calls[k].content

\* C9 witness: a finished report with secondary lines, the backend holding
\* a grouped record of a project outside Oxide.
C9_Witness ==
    /\ pc = "done"
    /\ SecondaryPrinted # <<>>
    /\ \E k \in 1..Len(Served) :
          HasProject(Served[k]) /\ ~StartsWith(NameOf(Served[k]), OxidePrefix)

\* C10: the references extracted from a text are those its links denote, one
\* per link, in the order of the text, repeated links repeated, links whose
\* number is no u64 left out, none for a text without link.
C10_ExtractionFollowsTheText ==
    \A k \in 1..Len(calls) :
        calls[k].content = Render(recipe) => calls[k].links = ReferencesOf(recipe)

\* C10 witness: a text with the same link twice around a link whose number
\* overflows: two equal references.
C10_Witness ==
    \E k \in 1..Len(calls) :
        /\ calls[k].content = Render(recipe)
        /\ \E i \in 1..Len(recipe) : IsLinkPiece(recipe[i]) /\ recipe[i].ref = <<>>
        /\ Len(calls[k].links) = 2
        /\ calls[k].links[1] = calls[k].links[2]

====
